---- MODULE Spec2Model ----
(***************************************************************************)
(* go-ddd-clean-starter: the users domain.                                 *)
(*                                                                         *)
(* The model follows the request pipeline                                  *)
(*   handler -> UserService -> UserRepository -> sqlc query -> users table *)
(* Every sqlc query is one atomic step on the table; the service methods   *)
(* that issue several queries are split at the queries, so requests that   *)
(* run concurrently interleave exactly where the code lets them.           *)
(*                                                                         *)
(* Strings that the code inspects character by character (email            *)
(* addresses, error texts) are sequences; the other strings are TLA+       *)
(* strings.                                                                *)
(***************************************************************************)
EXTENDS Integers, Sequences, FiniteSets, TLC

VARIABLES store, nextId, now, ops, calls, inflight, last, deleted, pwHist, tx, server, probe

vars == <<store, nextId, now, ops, calls, inflight, last, deleted, pwHist, tx, server, probe>>

(***************************************************************************)
(* Bounds of the model.                                                    *)
(***************************************************************************)
\* number of uuid.New() values that are handed out
MaxIds == 2
\* largest value of the wall clock
MaxClock == 2
\* requests that are in flight at the same time
MaxReqs == 2
\* requests that are served in one behaviour
MaxOps == 3
\* clock ticks per unit of the TIMESTAMP column (nanoseconds per microsecond)
TimestampResolution == 2

\* bits of Go's int, and of the int32 of the query parameters, scaled down
IntBits == 11
Int32Bits == 9

Ids == 1..MaxIds
Times == 0..MaxClock

\* a well-formed uuid that uuid.New() never returns: the id of no user
UnknownId == MaxIds + 1

(***************************************************************************)
(* Inputs.                                                                 *)
(***************************************************************************)
EmailA      == <<"a", "@", "x", ".", "i", "o">>
EmailAMixed == <<" ", "A", "@", "X", ".", "i", "o", " ">>
EmailB      == <<"b", "@", "x", ".", "i", "o">>
EmailNoTld  == <<"a", "@", "x">>
EmailEmpty  == <<>>

RawEmails == {EmailA, EmailAMixed, EmailB, EmailNoTld, EmailEmpty}
Names     == {"", "Ann", "Bob"}
Passwords == {"short", "password1", "password2"}

(***************************************************************************)
(* Errors.  An error is its chain of identities (what errors.Is walks) and *)
(* the words of its Error() text.                                          *)
(***************************************************************************)
Nil == [chain |-> <<>>, text |-> <<>>]

ErrorsNew(msg) == [chain |-> <<msg>>, text |-> <<msg>>]

\* fmt.Errorf(msg + ": %w", err)
Errorf(msg, err) == [chain |-> <<msg>> \o err.chain, text |-> <<msg, ":">> \o err.text]

ErrorsIs(err, target) == \E i \in 1..Len(err.chain) : err.chain[i] = target.chain[1]

ErrUserNotFound       == ErrorsNew("user not found")
ErrEmailAlreadyExists == ErrorsNew("email already exists")
ErrInvalidEmail       == ErrorsNew("invalid email format")
ErrInvalidPassword    == ErrorsNew("invalid password")
ErrUserInactive       == ErrorsNew("user is inactive")

\* pgx.ErrNoRows
PgxErrNoRows == ErrorsNew("no rows in result set")

\* the *pgconn.PgError of a violated UNIQUE constraint (SQLSTATE 23505)
PgUniqueViolation ==
    [chain |-> <<"PgError 23505">>,
     text  |-> <<"ERROR:", "duplicate key", "value violates", "unique constraint",
                 "users_email_key", "(SQLSTATE 23505)">>]

(***************************************************************************)
(* Machine integers: a value of w bits, two's complement.                  *)
(***************************************************************************)
Wrap(n, bits) == ((n + 2^(bits - 1)) % 2^bits) - 2^(bits - 1)

\* the result of an int operation
ToInt(n) == Wrap(n, IntBits)

\* int32(n)
ToInt32(n) == Wrap(n, Int32Bits)

MaxInt == 2^(IntBits - 1) - 1

(***************************************************************************)
(* Email value object.                                                     *)
(***************************************************************************)
UpperLetters == <<"A","B","C","D","E","F","G","H","I","J","K","L","M",
                  "N","O","P","Q","R","S","T","U","V","W","X","Y","Z">>
LowerLetters == <<"a","b","c","d","e","f","g","h","i","j","k","l","m",
                  "n","o","p","q","r","s","t","u","v","w","x","y","z">>
Digits       == {"0","1","2","3","4","5","6","7","8","9"}
Range(s)     == {s[i] : i \in 1..Len(s)}
Letters      == Range(UpperLetters) \cup Range(LowerLetters)
WhiteSpace   == {" ", "\t", "\n", "\r"}
\* U+017F LATIN SMALL LETTER LONG S: a lower-case letter outside ASCII whose
\* upper case is "S"; unicode.ToLower leaves it as it is
LongS        == "U+017F"

ToLowerRune(c) ==
    IF \E k \in 1..Len(UpperLetters) : UpperLetters[k] = c
    THEN LowerLetters[CHOOSE k \in 1..Len(UpperLetters) : UpperLetters[k] = c]
    ELSE c

\* strings.ToLower
ToLower(s) == [i \in 1..Len(s) |-> ToLowerRune(s[i])]

\* strings.TrimSpace
TrimSpace(s) ==
    LET keep == {i \in 1..Len(s) : s[i] \notin WhiteSpace}
    IN  IF keep = {} THEN <<>>
        ELSE LET lo == CHOOSE i \in keep : \A j \in keep : i <= j
                 hi == CHOOSE i \in keep : \A j \in keep : j <= i
             IN  SubSeq(s, lo, hi)

AllIn(s, lo, hi, chars) == \A k \in lo..hi : s[k] \in chars

\* emailRegex: ^[a-zA-Z0-9._%+\-]+@[a-zA-Z0-9.\-]+\.[a-zA-Z]{2,}$
emailRegexMatch(s) ==
    \E i \in 1..Len(s), j \in 1..Len(s) :
        /\ 1 < i /\ i + 1 < j /\ j + 2 <= Len(s)
        /\ s[i] = "@"
        /\ s[j] = "."
        /\ AllIn(s, 1, i - 1, Letters \cup Digits \cup {".", "_", "%", "+", "-"})
        /\ AllIn(s, i + 1, j - 1, Letters \cup Digits \cup {".", "-"})
        /\ AllIn(s, j + 1, Len(s), Letters)

\* the address is trimmed but its case is kept
NewEmailKeepsCase(email) ==
    LET e == TrimSpace(email)
    IN  IF e = <<>> THEN [err |-> ErrInvalidEmail, value |-> <<>>]
        ELSE IF ~emailRegexMatch(e) THEN [err |-> ErrInvalidEmail, value |-> <<>>]
        ELSE [err |-> Nil, value |-> e]

\* the address is put in lower case but not trimmed
NewEmailUntrimmed(email) ==
    LET e == ToLower(email)
    IN  IF e = <<>> THEN [err |-> ErrInvalidEmail, value |-> <<>>]
        ELSE IF ~emailRegexMatch(e) THEN [err |-> ErrInvalidEmail, value |-> <<>>]
        ELSE [err |-> Nil, value |-> e]

NewEmail(email) ==
    LET e == TrimSpace(ToLower(email))
    IN  IF e = <<>> THEN [err |-> ErrInvalidEmail, value |-> <<>>]
        ELSE IF ~emailRegexMatch(e) THEN [err |-> ErrInvalidEmail, value |-> <<>>]
        ELSE [err |-> Nil, value |-> e]

(***************************************************************************)
(* User entity.                                                            *)
(***************************************************************************)
NoUser == [ID |-> 0, Email |-> <<>>, Name |-> "", PasswordHash |-> "",
           IsActive |-> FALSE, CreatedAt |-> 0, UpdatedAt |-> 0]

\* UpdatedAt is read from the clock a second time, later than CreatedAt
NewUserTwoClockReads(email, name, passwordHash, id, t) ==
    IF name = "" THEN [err |-> ErrorsNew("name cannot be empty"), user |-> NoUser]
    ELSE IF passwordHash = ""
    THEN [err |-> ErrorsNew("password hash cannot be empty"), user |-> NoUser]
    ELSE [err  |-> Nil,
          user |-> [ID |-> id, Email |-> email, Name |-> name,
                    PasswordHash |-> passwordHash, IsActive |-> TRUE,
                    CreatedAt |-> t, UpdatedAt |-> t + TimestampResolution]]

\* NewUser(email, name, passwordHash), with the uuid and the time it draws
NewUser(email, name, passwordHash, id, t) ==
    IF name = "" THEN [err |-> ErrorsNew("name cannot be empty"), user |-> NoUser]
    ELSE IF passwordHash = ""
    THEN [err |-> ErrorsNew("password hash cannot be empty"), user |-> NoUser]
    ELSE [err  |-> Nil,
          user |-> [ID |-> id, Email |-> email, Name |-> name,
                    PasswordHash |-> passwordHash, IsActive |-> TRUE,
                    CreatedAt |-> t, UpdatedAt |-> t]]

UpdateProfile(u, name, email, t) ==
    IF name = "" THEN [err |-> ErrorsNew("name cannot be empty"), user |-> u]
    ELSE [err |-> Nil, user |-> [u EXCEPT !.Name = name, !.Email = email, !.UpdatedAt = t]]

Deactivate(u, t) == [u EXCEPT !.IsActive = FALSE, !.UpdatedAt = t]

Activate(u, t) == [u EXCEPT !.IsActive = TRUE, !.UpdatedAt = t]

UserChangePassword(u, passwordHash, t) ==
    IF passwordHash = ""
    THEN [err |-> ErrorsNew("password hash cannot be empty"), user |-> u]
    ELSE [err |-> Nil, user |-> [u EXCEPT !.PasswordHash = passwordHash, !.UpdatedAt = t]]

(***************************************************************************)
(* The users table and the sqlc queries.  A row keeps its timestamps at    *)
(* the resolution of the TIMESTAMP column.                                 *)
(***************************************************************************)
NoRow == [id |-> 0, email |-> <<>>, name |-> "", password_hash |-> "",
          is_active |-> FALSE, created_at |-> 0, updated_at |-> 0]

\* timeToPgtype and the TIMESTAMP column: the stored value drops the sub-unit part
timeToPgtype(t) == t - (t % TimestampResolution)

\* the column without its UNIQUE constraint
EmailTakenNever(db, email, self) == FALSE

\* the constraint counts the row that is being updated
EmailTakenCountsSelf(db, email, self) ==
    \E k \in DOMAIN db : db[k].email = email

\* email VARCHAR(255) UNIQUE NOT NULL: no other row, active or not, holds the email
EmailTaken(db, email, self) ==
    \E k \in DOMAIN db : k # self /\ db[k].email = email

Put(db, id, row) == [k \in DOMAIN db \cup {id} |-> IF k = id THEN row ELSE db[k]]

\* -- name: CreateUser :one
DbCreateUser(db, p) ==
    IF p.id \in DOMAIN db \/ EmailTaken(db, p.email, p.id)
    THEN [err |-> PgUniqueViolation, row |-> NoRow, db |-> db]
    ELSE [err |-> Nil, row |-> p, db |-> Put(db, p.id, p)]

\* -- name: GetUserByID :one
DbGetUserByID(db, id) ==
    IF id \in DOMAIN db /\ db[id].is_active
    THEN [err |-> Nil, row |-> db[id]]
    ELSE [err |-> PgxErrNoRows, row |-> NoRow]

\* -- name: GetUserByEmail :one
DbGetUserByEmail(db, email) ==
    IF \E k \in DOMAIN db : db[k].email = email /\ db[k].is_active
    THEN [err |-> Nil,
          row |-> db[CHOOSE k \in DOMAIN db : db[k].email = email /\ db[k].is_active]]
    ELSE [err |-> PgxErrNoRows, row |-> NoRow]

\* the UPDATE without password_hash = $4
DbUpdateUserKeepsHash(db, p) ==
    IF p.id \notin DOMAIN db THEN [err |-> PgxErrNoRows, row |-> NoRow, db |-> db]
    ELSE IF EmailTaken(db, p.email, p.id)
    THEN [err |-> PgUniqueViolation, row |-> NoRow, db |-> db]
    ELSE LET row == [db[p.id] EXCEPT !.email = p.email, !.name = p.name,
                                     !.is_active = p.is_active,
                                     !.updated_at = p.updated_at]
         IN  [err |-> Nil, row |-> row, db |-> Put(db, p.id, row)]

\* the UPDATE is not atomic: the name is written before the constraint is checked
DbUpdateUserWritesThenFails(db, p) ==
    IF p.id \notin DOMAIN db THEN [err |-> PgxErrNoRows, row |-> NoRow, db |-> db]
    ELSE IF EmailTaken(db, p.email, p.id)
    THEN [err |-> PgUniqueViolation, row |-> NoRow,
          db |-> Put(db, p.id, [db[p.id] EXCEPT !.name = p.name,
                                                !.updated_at = p.updated_at])]
    ELSE LET row == [db[p.id] EXCEPT !.email = p.email, !.name = p.name,
                                     !.password_hash = p.password_hash,
                                     !.is_active = p.is_active,
                                     !.updated_at = p.updated_at]
         IN  [err |-> Nil, row |-> row, db |-> Put(db, p.id, row)]

\* the UPDATE with created_at = $6 as well
DbUpdateUserResetsCreatedAt(db, p) ==
    IF p.id \notin DOMAIN db THEN [err |-> PgxErrNoRows, row |-> NoRow, db |-> db]
    ELSE IF EmailTaken(db, p.email, p.id)
    THEN [err |-> PgUniqueViolation, row |-> NoRow, db |-> db]
    ELSE LET row == [db[p.id] EXCEPT !.email = p.email, !.name = p.name,
                                     !.password_hash = p.password_hash,
                                     !.is_active = p.is_active,
                                     !.created_at = p.updated_at,
                                     !.updated_at = p.updated_at]
         IN  [err |-> Nil, row |-> row, db |-> Put(db, p.id, row)]

\* -- name: UpdateUser :one
DbUpdateUser(db, p) ==
    IF p.id \notin DOMAIN db THEN [err |-> PgxErrNoRows, row |-> NoRow, db |-> db]
    ELSE IF EmailTaken(db, p.email, p.id)
    THEN [err |-> PgUniqueViolation, row |-> NoRow, db |-> db]
    ELSE LET row == [db[p.id] EXCEPT !.email = p.email, !.name = p.name,
                                     !.password_hash = p.password_hash,
                                     !.is_active = p.is_active,
                                     !.updated_at = p.updated_at]
         IN  [err |-> Nil, row |-> row, db |-> Put(db, p.id, row)]

\* the soft delete with updated_at left at the zero time
DbDeleteUserZeroTime(db, id, updated_at) ==
    IF id \in DOMAIN db
    THEN [err |-> Nil,
          db  |-> Put(db, id, [db[id] EXCEPT !.is_active = FALSE, !.updated_at = 0])]
    ELSE [err |-> Nil, db |-> db]

\* -- name: DeleteUser :exec   (an UPDATE that matches no row is no error)
DbDeleteUser(db, id, updated_at) ==
    IF id \in DOMAIN db
    THEN [err |-> Nil,
          db  |-> Put(db, id, [db[id] EXCEPT !.is_active = FALSE,
                                             !.updated_at = updated_at])]
    ELSE [err |-> Nil, db |-> db]

\* the rows a LIMIT / OFFSET clause keeps
Page(rows, limit, offset) ==
    SubSeq(rows, offset + 1, IF offset + limit < Len(rows) THEN offset + limit ELSE Len(rows))

\* ORDER BY created_at DESC over the active rows: the orders the query may produce
\* (rows of equal created_at come in any order)
Orderings(db) ==
    LET active == {k \in DOMAIN db : db[k].is_active}
        n      == Cardinality(active)
    IN  {o \in [1..n -> active] :
            /\ \A i, j \in 1..n : i # j => o[i] # o[j]
            /\ \A i, j \in 1..n : i < j => db[o[i]].created_at >= db[o[j]].created_at}

\* the error of a query that PostgreSQL refuses
PgInvalidRowCount(msg) ==
    [chain |-> <<"PgError 2201X">>, text |-> <<"ERROR:", msg>>]

\* -- name: ListUsers :many   (order: the order the rows come in)
DbListUsers(db, limit, offset, order) ==
    IF limit < 0
    THEN [err |-> PgInvalidRowCount("LIMIT must not be negative"), rows |-> <<>>]
    ELSE IF offset < 0
    THEN [err |-> PgInvalidRowCount("OFFSET must not be negative"), rows |-> <<>>]
    ELSE [err  |-> Nil,
          rows |-> Page([i \in 1..Len(order) |-> db[order[i]]], limit, offset)]

\* -- name: CountUsers :one
DbCountUsers(db) ==
    [err |-> Nil, count |-> Cardinality({k \in DOMAIN db : db[k].is_active})]

(***************************************************************************)
(* UserRepository.                                                         *)
(***************************************************************************)
\* findSubstring(s, substr)
findSubstring(s, substr) ==
    \E i \in 0..(Len(s) - Len(substr)) : SubSeq(s, i + 1, i + Len(substr)) = substr

\* contains(s, substr)
contains(s, substr) ==
    /\ Len(s) >= Len(substr)
    /\ \/ s = substr
       \/ /\ Len(s) > Len(substr)
          /\ \/ SubSeq(s, 1, Len(substr)) = substr
             \/ SubSeq(s, Len(s) - Len(substr) + 1, Len(s)) = substr
             \/ (Len(s) > Len(substr) + 1 /\ findSubstring(s, substr))

\* only the exact text is recognized, which lacks the name of the constraint
isUniqueViolationExactText(err) ==
    /\ err # Nil
    /\ err.text = <<"ERROR:", "duplicate key", "value violates", "unique constraint",
                    "(SQLSTATE 23505)">>

isUniqueViolation(err) ==
    /\ err # Nil
    /\ \/ err.text = <<"ERROR:", "duplicate key", "value violates", "unique constraint",
                       "(SQLSTATE 23505)">>
       \/ contains(err.text, <<"unique constraint">>)
       \/ contains(err.text, <<"duplicate key">>)

toDomainUser(row) ==
    LET email == NewEmail(row.email)
    IN  IF email.err # Nil
        THEN [err |-> Errorf("invalid email in database", email.err), user |-> NoUser]
        ELSE [err  |-> Nil,
              user |-> [ID |-> row.id, Email |-> email.value, Name |-> row.name,
                        PasswordHash |-> row.password_hash, IsActive |-> row.is_active,
                        CreatedAt |-> row.created_at, UpdatedAt |-> row.updated_at]]

Save(db, user) ==
    LET q == DbCreateUser(db, [id |-> user.ID, email |-> user.Email, name |-> user.Name,
                               password_hash |-> user.PasswordHash,
                               is_active |-> user.IsActive,
                               created_at |-> timeToPgtype(user.CreatedAt),
                               updated_at |-> timeToPgtype(user.UpdatedAt)])
    IN  IF q.err # Nil
        THEN [err |-> IF isUniqueViolation(q.err) THEN ErrEmailAlreadyExists
                      ELSE Errorf("failed to create user", q.err),
              db  |-> q.db]
        ELSE [err |-> Nil, db |-> q.db]

FindByID(db, id) ==
    LET q == DbGetUserByID(db, id)
    IN  IF q.err # Nil
        THEN [err |-> IF ErrorsIs(q.err, PgxErrNoRows) THEN ErrUserNotFound
                      ELSE Errorf("failed to get user by ID", q.err),
              user |-> NoUser]
        ELSE toDomainUser(q.row)

FindByEmail(db, email) ==
    LET q == DbGetUserByEmail(db, email)
    IN  IF q.err # Nil
        THEN [err |-> IF ErrorsIs(q.err, PgxErrNoRows) THEN ErrUserNotFound
                      ELSE Errorf("failed to get user by email", q.err),
              user |-> NoUser]
        ELSE toDomainUser(q.row)

\* a violated UNIQUE constraint is reported like any other failure
UpdateViolationUnmapped(db, user) ==
    LET q == DbUpdateUser(db, [id |-> user.ID, email |-> user.Email, name |-> user.Name,
                               password_hash |-> user.PasswordHash,
                               is_active |-> user.IsActive,
                               updated_at |-> timeToPgtype(user.UpdatedAt)])
    IN  IF q.err # Nil
        THEN [err |-> IF ErrorsIs(q.err, PgxErrNoRows) THEN ErrUserNotFound
                      ELSE Errorf("failed to update user", q.err),
              db  |-> q.db]
        ELSE [err |-> Nil, db |-> q.db]

Update(db, user) ==
    LET q == DbUpdateUser(db, [id |-> user.ID, email |-> user.Email, name |-> user.Name,
                               password_hash |-> user.PasswordHash,
                               is_active |-> user.IsActive,
                               updated_at |-> timeToPgtype(user.UpdatedAt)])
    IN  IF q.err # Nil
        THEN [err |-> IF ErrorsIs(q.err, PgxErrNoRows) THEN ErrUserNotFound
                      ELSE IF isUniqueViolation(q.err) THEN ErrEmailAlreadyExists
                      ELSE Errorf("failed to update user", q.err),
              db  |-> q.db]
        ELSE [err |-> Nil, db |-> q.db]

Delete(db, id, t) ==
    LET q == DbDeleteUser(db, id, timeToPgtype(t))
    IN  IF q.err # Nil
        THEN [err |-> IF ErrorsIs(q.err, PgxErrNoRows) THEN ErrUserNotFound
                      ELSE Errorf("failed to delete user", q.err),
              db  |-> q.db]
        ELSE [err |-> Nil, db |-> q.db]

\* sqlc.ListUsersParams{Limit: int32(limit), Offset: int32(offset)}
ListUsersParams(limit, offset) == [Limit |-> ToInt32(limit), Offset |-> ToInt32(offset)]

List(db, limit, offset, order) ==
    LET q     == DbListUsers(db, ListUsersParams(limit, offset).Limit,
                             ListUsersParams(limit, offset).Offset, order)
        users == [i \in 1..Len(q.rows) |-> toDomainUser(q.rows[i])]
    IN  IF q.err # Nil
        THEN [err |-> Errorf("failed to list users", q.err), users |-> <<>>]
        ELSE IF \E i \in 1..Len(users) : users[i].err # Nil
        THEN [err   |-> Errorf("failed to map user at index",
                               users[CHOOSE i \in 1..Len(users) :
                                        /\ users[i].err # Nil
                                        /\ \A j \in 1..(i - 1) : users[j].err = Nil].err),
              users |-> <<>>]
        ELSE [err |-> Nil, users |-> [i \in 1..Len(users) |-> users[i].user]]

Count(db) ==
    LET q == DbCountUsers(db)
    IN  IF q.err # Nil
        THEN [err |-> Errorf("failed to count users", q.err), count |-> 0]
        ELSE [err |-> Nil, count |-> q.count]

(***************************************************************************)
(* UserService helpers and the handler's error mapping.                    *)
(***************************************************************************)
MinPasswordLen == 8

validatePassword(password) ==
    IF Len(password) < MinPasswordLen
    THEN ErrorsNew("password must be at least 8 characters")
    ELSE Nil

validateCreateUserInput(dto) ==
    IF dto.Email = <<>> THEN ErrorsNew("email is required")
    ELSE IF dto.Name = "" THEN ErrorsNew("name is required")
    ELSE IF dto.Password = "" THEN ErrorsNew("password is required")
    ELSE validatePassword(dto.Password)

\* bcrypt.GenerateFromPassword: the hash is not the password; the salt plays no
\* part in what the hash verifies
hashPassword(password) == "$2a$10$" \o password

\* the outcome of the comparison is dropped
verifyPasswordUnchecked(hash, password) == Nil

\* bcrypt.CompareHashAndPassword
verifyPassword(hash, password) ==
    IF hash = hashPassword(password) THEN Nil
    ELSE ErrorsNew("crypto/bcrypt: hashedPassword is not the hash of the given password")

NoDTO == [ID |-> 0, Email |-> <<>>, Name |-> "", IsActive |-> FALSE,
          CreatedAt |-> 0, UpdatedAt |-> 0]

toUserResponseDTO(user) ==
    [ID |-> user.ID, Email |-> user.Email, Name |-> user.Name,
     IsActive |-> user.IsActive, CreatedAt |-> user.CreatedAt,
     UpdatedAt |-> user.UpdatedAt]

\* UserService.GetUser
GetUser(db, id) ==
    LET f == FindByID(db, id)
    IN  IF f.err # Nil THEN [err |-> f.err, out |-> NoDTO]
        ELSE [err |-> Nil, out |-> toUserResponseDTO(f.user)]

\* the error is compared with ==, which a wrapped error does not pass
handleErrorByEquality(err) ==
    IF err = ErrUserNotFound THEN 404
    ELSE IF err = ErrEmailAlreadyExists THEN 409
    ELSE IF err = ErrInvalidEmail THEN 400
    ELSE IF err = ErrInvalidPassword THEN 401
    ELSE IF err = ErrUserInactive THEN 403
    ELSE 500

\* UserHandler.handleError: the status of the response
handleError(err) ==
    IF ErrorsIs(err, ErrUserNotFound) THEN 404
    ELSE IF ErrorsIs(err, ErrEmailAlreadyExists) THEN 409
    ELSE IF ErrorsIs(err, ErrInvalidEmail) THEN 400
    ELSE IF ErrorsIs(err, ErrInvalidPassword) THEN 401
    ELSE IF ErrorsIs(err, ErrUserInactive) THEN 403
    ELSE 500

\* the body of a response that is no error
NoBody == [Error |-> "", Message |-> ""]

\* UserHandler.handleError: the body of the response
handleErrorBody(err) ==
    IF ErrorsIs(err, ErrUserNotFound)
    THEN [Error |-> "not_found", Message |-> "User not found"]
    ELSE IF ErrorsIs(err, ErrEmailAlreadyExists)
    THEN [Error |-> "conflict", Message |-> "Email already exists"]
    ELSE IF ErrorsIs(err, ErrInvalidEmail)
    THEN [Error |-> "invalid_email", Message |-> "Invalid email format"]
    ELSE IF ErrorsIs(err, ErrInvalidPassword)
    THEN [Error |-> "invalid_password", Message |-> "Invalid password"]
    ELSE IF ErrorsIs(err, ErrUserInactive)
    THEN [Error |-> "user_inactive", Message |-> "User account is inactive"]
    ELSE [Error |-> "internal_error", Message |-> "An internal error occurred"]

\* UserListResponseDTO before ListUsers fills it
NoList == [Users |-> <<>>, Total |-> 0, Limit |-> 0, Offset |-> 0, HasMore |-> FALSE]

(***************************************************************************)
(* The transaction manager: the WithTransaction calls that are running.    *)
(* log is what was invoked on the pgx.Tx, fn how the callback ended.       *)
(***************************************************************************)
\* WithTransaction calls in one behaviour
MaxTx == 2

TxCalls == 1..MaxTx

NoOutcome == [kind |-> "none", err |-> Nil, value |-> ""]

NoTx == [pc |-> "idle", fn |-> NoOutcome, log |-> <<>>, result |-> Nil, raised |-> ""]

\* no email has been constructed outside a request
NoProbe == [pc |-> "none", a |-> <<>>, b |-> <<>>, ra |-> [err |-> Nil, value |-> <<>>],
            rb |-> [err |-> Nil, value |-> <<>>], again |-> [err |-> Nil, value |-> <<>>]]

\* the process after app.Listen has started: main blocked in Listen, the listener
\* open, the shutdown goroutine waiting for a signal, the pool open
Serving == [main |-> "listen", listening |-> TRUE, shutdown |-> "waiting", pool |-> "open"]

(***************************************************************************)
(* Requests.  inflight holds the requests that have issued a query and     *)
(* wait to issue the next one, with the locals they carry across; last is  *)
(* the response of the request that finished most recently.  Every write   *)
(* to the table is the final query of its request, so the table has not    *)
(* been written since last was set.                                        *)
(*                                                                         *)
(* deleted and pwHist are history variables: the DeleteUser requests that  *)
(* have returned nil (the id and the number of the request), and per id    *)
(* the passwords of the latest successful ChangePassword.                  *)
(***************************************************************************)
NoDto == [Email |-> <<>>, Name |-> "", Password |-> "", OldPassword |-> "",
          NewPassword |-> "", Limit |-> 0, Offset |-> 0]

\* what a ListUsers request carries from its page query to its count query: the
\* users and the clamped parameters; params (the sqlc.ListUsersParams the query
\* was given) and snapshot (the table the query read) are kept for the properties
NoPage == [users |-> <<>>, limit |-> 0, offset |-> 0,
           params |-> [Limit |-> 0, Offset |-> 0], snapshot |-> <<>>]

NoPw == [old |-> "", new |-> ""]

Start ==
    /\ store = <<>>
    /\ nextId = 1
    /\ now = 0
    /\ ops = 0
    /\ calls = 0
    /\ inflight = {}
    /\ last = [rid |-> 0, op |-> "none", id |-> 0, dto |-> NoDto, err |-> Nil,
               out |-> NoDTO, status |-> 0, body |-> NoBody, list |-> NoList]
    /\ deleted = {}
    /\ pwHist = [i \in Ids |-> NoPw]
    /\ tx = [c \in TxCalls |-> NoTx]
    /\ server = Serving

Init == Start /\ probe = NoProbe

\* a new request is accepted
CanStart == ops < MaxOps /\ Cardinality(inflight) < MaxReqs

\* the response of a routed request: the handler's success status or handleError
Respond(rid, op, id, dto, err, out, okStatus) ==
    last' = [rid |-> rid, op |-> op, id |-> id, dto |-> dto, err |-> err, out |-> out,
             status |-> IF err = Nil THEN okStatus ELSE handleError(err),
             body |-> IF err = Nil THEN NoBody ELSE handleErrorBody(err),
             list |-> NoList]

\* the result of a service method that no route exposes
Return(rid, op, id, dto, err, out) ==
    last' = [rid |-> rid, op |-> op, id |-> id, dto |-> dto, err |-> err, out |-> out,
             status |-> 0, body |-> NoBody, list |-> NoList]

\* the request waits for its next query
Await(rid, op, pc, id, dto, user, email) ==
    inflight' = inflight \cup
        {[rid |-> rid, op |-> op, pc |-> pc, id |-> id, dto |-> dto, user |-> user,
          email |-> email, page |-> NoPage]}

PendingCreates == Cardinality({r \in inflight : r.op = "CreateUser"})

(***************************************************************************)
(* CreateUser: validate, NewEmail, FindByEmail | hashPassword, NewUser,    *)
(* Save.                                                                   *)
(***************************************************************************)
CreateUserCheck(dto) ==
    /\ CanStart
    /\ nextId + PendingCreates <= MaxIds
    /\ ops' = ops + 1
    /\ calls' = calls + 1
    /\ LET v == validateCreateUserInput(dto)
           e == NewEmail(dto.Email)
           f == FindByEmail(store, e.value)
       IN  IF v # Nil
           THEN Respond(ops + 1, "CreateUser", 0, dto, v, NoDTO, 201) /\ UNCHANGED inflight
           ELSE IF e.err # Nil
           THEN Respond(ops + 1, "CreateUser", 0, dto, e.err, NoDTO, 201)
                /\ UNCHANGED inflight
           ELSE IF f.err # Nil /\ ~ErrorsIs(f.err, ErrUserNotFound)
           THEN Respond(ops + 1, "CreateUser", 0, dto,
                        Errorf("failed to check email existence", f.err), NoDTO, 201)
                /\ UNCHANGED inflight
           ELSE IF f.user # NoUser
           THEN Respond(ops + 1, "CreateUser", 0, dto, ErrEmailAlreadyExists, NoDTO, 201)
                /\ UNCHANGED inflight
           ELSE Await(ops + 1, "CreateUser", "save", 0, dto, NoUser, e.value)
                /\ UNCHANGED last
    /\ UNCHANGED <<store, nextId, now, deleted, pwHist, tx, server, probe>>

CreateUserSave(r, t) ==
    /\ r.op = "CreateUser" /\ r.pc = "save"
    /\ nextId <= MaxIds
    /\ inflight' = inflight \ {r}
    /\ LET n == NewUser(r.email, r.dto.Name, hashPassword(r.dto.Password), nextId, t)
           s == Save(store, n.user)
       IN  IF n.err # Nil
           THEN /\ Respond(r.rid, "CreateUser", 0, r.dto,
                           Errorf("failed to create user entity", n.err), NoDTO, 201)
                /\ UNCHANGED <<store, nextId, now>>
           ELSE /\ nextId' = nextId + 1
                /\ now' = t
                /\ store' = s.db
                /\ IF s.err # Nil
                   THEN Respond(r.rid, "CreateUser", 0, r.dto,
                                Errorf("failed to save user", s.err), NoDTO, 201)
                   ELSE Respond(r.rid, "CreateUser", n.user.ID, r.dto, Nil,
                                toUserResponseDTO(n.user), 201)
    /\ UNCHANGED <<ops, calls, deleted, pwHist, tx, server, probe>>

(***************************************************************************)
(* GetUser and DeleteUser: one query each.                                 *)
(***************************************************************************)
GetUserCall(id) ==
    /\ CanStart
    /\ ops' = ops + 1
    /\ calls' = calls + 1
    /\ LET g == GetUser(store, id)
       IN  Respond(ops + 1, "GetUser", id, NoDto, g.err, g.out, 200)
    /\ UNCHANGED <<store, nextId, now, inflight, deleted, pwHist, tx, server, probe>>

DeleteUserCall(id, t) ==
    /\ CanStart
    /\ ops' = ops + 1
    /\ calls' = calls + 1
    /\ now' = t
    /\ LET d == Delete(store, id, t)
       IN  /\ store' = d.db
           /\ Respond(ops + 1, "DeleteUser", id, NoDto, d.err, NoDTO, 204)
           /\ deleted' = IF d.err = Nil
                         THEN deleted \cup {[id |-> id, rid |-> ops + 1]}
                         ELSE deleted
    /\ UNCHANGED <<nextId, inflight, pwHist, tx, server, probe>>

(***************************************************************************)
(* UpdateUser: FindByID, validate, NewEmail | FindByEmail (only when the   *)
(* email changes) | UpdateProfile, Update.                                 *)
(***************************************************************************)
Advance(r, pc) == inflight' = (inflight \ {r}) \cup {[r EXCEPT !.pc = pc]}

UpdateUserFind(id, dto) ==
    /\ CanStart
    /\ ops' = ops + 1
    /\ calls' = calls + 1
    /\ LET f == FindByID(store, id)
           e == NewEmail(dto.Email)
       IN  IF f.err # Nil
           THEN Respond(ops + 1, "UpdateUser", id, dto, f.err, NoDTO, 200)
                /\ UNCHANGED inflight
           ELSE IF dto.Name = ""
           THEN Respond(ops + 1, "UpdateUser", id, dto, ErrorsNew("name cannot be empty"),
                        NoDTO, 200)
                /\ UNCHANGED inflight
           ELSE IF e.err # Nil
           THEN Respond(ops + 1, "UpdateUser", id, dto, e.err, NoDTO, 200)
                /\ UNCHANGED inflight
           ELSE Await(ops + 1, "UpdateUser",
                      IF e.value # f.user.Email THEN "checkEmail" ELSE "update",
                      id, dto, f.user, e.value)
                /\ UNCHANGED last
    /\ UNCHANGED <<store, nextId, now, deleted, pwHist, tx, server, probe>>

UpdateUserCheckEmail(r) ==
    /\ r.op = "UpdateUser" /\ r.pc = "checkEmail"
    /\ LET f == FindByEmail(store, r.email)
       IN  IF f.err # Nil /\ ~ErrorsIs(f.err, ErrUserNotFound)
           THEN Respond(r.rid, "UpdateUser", r.id, r.dto,
                        Errorf("failed to check email existence", f.err), NoDTO, 200)
                /\ inflight' = inflight \ {r}
           ELSE IF f.user # NoUser /\ f.user.ID # r.user.ID
           THEN Respond(r.rid, "UpdateUser", r.id, r.dto, ErrEmailAlreadyExists, NoDTO, 200)
                /\ inflight' = inflight \ {r}
           ELSE Advance(r, "update") /\ UNCHANGED last
    /\ UNCHANGED <<store, nextId, now, ops, calls, deleted, pwHist, tx, server, probe>>

UpdateUserWrite(r, t) ==
    /\ r.op = "UpdateUser" /\ r.pc = "update"
    /\ inflight' = inflight \ {r}
    /\ now' = t
    /\ LET p == UpdateProfile(r.user, r.dto.Name, r.email, t)
           u == Update(store, p.user)
       IN  IF p.err # Nil
           THEN Respond(r.rid, "UpdateUser", r.id, r.dto, p.err, NoDTO, 200)
                /\ UNCHANGED store
           ELSE /\ store' = u.db
                /\ IF u.err # Nil
                   THEN Respond(r.rid, "UpdateUser", r.id, r.dto,
                                Errorf("failed to update user", u.err), NoDTO, 200)
                   ELSE Respond(r.rid, "UpdateUser", r.id, r.dto, Nil,
                                toUserResponseDTO(p.user), 200)
    /\ UNCHANGED <<nextId, ops, calls, deleted, pwHist, tx, server, probe>>

(***************************************************************************)
(* ActivateUser and DeactivateUser: FindByID | toggle, Update.             *)
(***************************************************************************)
ActivateUserFind(id) ==
    /\ CanStart
    /\ ops' = ops + 1
    /\ calls' = calls + 1
    /\ LET f == FindByID(store, id)
       IN  IF f.err # Nil
           THEN Return(ops + 1, "ActivateUser", id, NoDto, f.err, NoDTO)
                /\ UNCHANGED inflight
           ELSE Await(ops + 1, "ActivateUser", "update", id, NoDto, f.user, f.user.Email)
                /\ UNCHANGED last
    /\ UNCHANGED <<store, nextId, now, deleted, pwHist, tx, server, probe>>

ActivateUserWrite(r, t) ==
    /\ r.op = "ActivateUser" /\ r.pc = "update"
    /\ inflight' = inflight \ {r}
    /\ now' = t
    /\ LET user == Activate(r.user, t)
           u    == Update(store, user)
       IN  /\ store' = u.db
           /\ IF u.err # Nil
              THEN Return(r.rid, "ActivateUser", r.id, NoDto,
                          Errorf("failed to activate user", u.err), NoDTO)
              ELSE Return(r.rid, "ActivateUser", r.id, NoDto, Nil, toUserResponseDTO(user))
    /\ UNCHANGED <<nextId, ops, calls, deleted, pwHist, tx, server, probe>>

DeactivateUserFind(id) ==
    /\ CanStart
    /\ ops' = ops + 1
    /\ calls' = calls + 1
    /\ LET f == FindByID(store, id)
       IN  IF f.err # Nil
           THEN Return(ops + 1, "DeactivateUser", id, NoDto, f.err, NoDTO)
                /\ UNCHANGED inflight
           ELSE Await(ops + 1, "DeactivateUser", "update", id, NoDto, f.user, f.user.Email)
                /\ UNCHANGED last
    /\ UNCHANGED <<store, nextId, now, deleted, pwHist, tx, server, probe>>

DeactivateUserWrite(r, t) ==
    /\ r.op = "DeactivateUser" /\ r.pc = "update"
    /\ inflight' = inflight \ {r}
    /\ now' = t
    /\ LET user == Deactivate(r.user, t)
           u    == Update(store, user)
       IN  /\ store' = u.db
           /\ IF u.err # Nil
              THEN Return(r.rid, "DeactivateUser", r.id, NoDto,
                          Errorf("failed to deactivate user", u.err), NoDTO)
              ELSE Return(r.rid, "DeactivateUser", r.id, NoDto, Nil,
                          toUserResponseDTO(user))
    /\ UNCHANGED <<nextId, ops, calls, deleted, pwHist, tx, server, probe>>

(***************************************************************************)
(* ChangePassword: FindByID, verifyPassword, validatePassword |            *)
(* hashPassword, User.ChangePassword, Update.                              *)
(***************************************************************************)
\* the new password is validated before the old one is verified
ChangePasswordFindValidatesFirst(id, dto) ==
    /\ CanStart
    /\ ops' = ops + 1
    /\ calls' = calls + 1
    /\ LET f == FindByID(store, id)
       IN  IF f.err # Nil
           THEN Respond(ops + 1, "ChangePassword", id, dto, f.err, NoDTO, 200)
                /\ UNCHANGED inflight
           ELSE IF validatePassword(dto.NewPassword) # Nil
           THEN Respond(ops + 1, "ChangePassword", id, dto,
                        validatePassword(dto.NewPassword), NoDTO, 200)
                /\ UNCHANGED inflight
           ELSE IF verifyPassword(f.user.PasswordHash, dto.OldPassword) # Nil
           THEN Respond(ops + 1, "ChangePassword", id, dto, ErrInvalidPassword, NoDTO, 200)
                /\ UNCHANGED inflight
           ELSE Await(ops + 1, "ChangePassword", "update", id, dto, f.user, f.user.Email)
                /\ UNCHANGED last
    /\ UNCHANGED <<store, nextId, now, deleted, pwHist, tx, server, probe>>

ChangePasswordFind(id, dto) ==
    /\ CanStart
    /\ ops' = ops + 1
    /\ calls' = calls + 1
    /\ LET f == FindByID(store, id)
       IN  IF f.err # Nil
           THEN Respond(ops + 1, "ChangePassword", id, dto, f.err, NoDTO, 200)
                /\ UNCHANGED inflight
           ELSE IF verifyPassword(f.user.PasswordHash, dto.OldPassword) # Nil
           THEN Respond(ops + 1, "ChangePassword", id, dto, ErrInvalidPassword, NoDTO, 200)
                /\ UNCHANGED inflight
           ELSE IF validatePassword(dto.NewPassword) # Nil
           THEN Respond(ops + 1, "ChangePassword", id, dto,
                        validatePassword(dto.NewPassword), NoDTO, 200)
                /\ UNCHANGED inflight
           ELSE Await(ops + 1, "ChangePassword", "update", id, dto, f.user, f.user.Email)
                /\ UNCHANGED last
    /\ UNCHANGED <<store, nextId, now, deleted, pwHist, tx, server, probe>>

ChangePasswordWrite(r, t) ==
    /\ r.op = "ChangePassword" /\ r.pc = "update"
    /\ inflight' = inflight \ {r}
    /\ now' = t
    /\ LET c == UserChangePassword(r.user, hashPassword(r.dto.NewPassword), t)
           u == Update(store, c.user)
       IN  IF c.err # Nil
           THEN Respond(r.rid, "ChangePassword", r.id, r.dto, c.err, NoDTO, 200)
                /\ UNCHANGED <<store, pwHist>>
           ELSE /\ store' = u.db
                /\ IF u.err # Nil
                   THEN Respond(r.rid, "ChangePassword", r.id, r.dto,
                                Errorf("failed to update password", u.err), NoDTO, 200)
                        /\ UNCHANGED pwHist
                   ELSE Respond(r.rid, "ChangePassword", r.id, r.dto, Nil, NoDTO, 200)
                        /\ pwHist' = [pwHist EXCEPT ![r.id] =
                                         [old |-> r.dto.OldPassword,
                                          new |-> r.dto.NewPassword]]
    /\ UNCHANGED <<nextId, ops, calls, deleted, tx, server, probe>>

(***************************************************************************)
(* ListUsers: the handler reads and clamps the query parameters, the       *)
(* service clamps them again, List | Count, the response.                  *)
(***************************************************************************)
DefaultLimit == 10
MaxLimit == 100

\* c.QueryInt(key, defaultValue): the default when the parameter is absent or no int
QueryInt(param, defaultValue) == IF param.present THEN param.value ELSE defaultValue

\* UserHandler.ListUsers: validate parameters
HandlerLimit(limit) ==
    LET l == IF limit < 1 THEN DefaultLimit ELSE limit
    IN  IF l > MaxLimit THEN MaxLimit ELSE l

HandlerOffset(offset) == IF offset < 0 THEN 0 ELSE offset

\* UserService.ListUsers: validate pagination parameters
ServiceLimit(limit) ==
    LET l == IF limit <= 0 THEN DefaultLimit ELSE limit
    IN  IF l > MaxLimit THEN MaxLimit ELSE l

ServiceOffset(offset) == IF offset < 0 THEN 0 ELSE offset

\* HasMore: int64(offset+limit) < total
HasMore(limit, offset, total) == ToInt(offset + limit) < total

ListUsersList(query, order) ==
    /\ CanStart
    /\ ops' = ops + 1
    /\ calls' = calls + 1
    /\ LET dto    == [NoDto EXCEPT !.Limit = QueryInt(query.limit, DefaultLimit),
                                   !.Offset = QueryInt(query.offset, 0)]
           limit  == ServiceLimit(HandlerLimit(dto.Limit))
           offset == ServiceOffset(HandlerOffset(dto.Offset))
           l      == List(store, limit, offset, order)
       IN  IF l.err # Nil
           THEN Respond(ops + 1, "ListUsers", 0, dto, Errorf("failed to list users", l.err),
                        NoDTO, 200)
                /\ UNCHANGED inflight
           ELSE /\ inflight' = inflight \cup
                       {[rid |-> ops + 1, op |-> "ListUsers", pc |-> "count", id |-> 0,
                         dto |-> dto, user |-> NoUser, email |-> <<>>,
                         page |-> [users |-> l.users, limit |-> limit, offset |-> offset,
                                   params |-> ListUsersParams(limit, offset),
                                   snapshot |-> store]]}
                /\ UNCHANGED last
    /\ UNCHANGED <<store, nextId, now, deleted, pwHist, tx, server, probe>>

ListUsersCount(r) ==
    /\ r.op = "ListUsers" /\ r.pc = "count"
    /\ inflight' = inflight \ {r}
    /\ LET c == Count(store)
       IN  IF c.err # Nil
           THEN Respond(r.rid, "ListUsers", 0, r.dto, Errorf("failed to count users", c.err),
                        NoDTO, 200)
           ELSE last' = [rid |-> r.rid, op |-> "ListUsers", id |-> 0, dto |-> r.dto,
                         err |-> Nil, out |-> NoDTO, status |-> 200, body |-> NoBody,
                         list |-> [Users   |-> [i \in 1..Len(r.page.users) |->
                                                   toUserResponseDTO(r.page.users[i])],
                                   Total   |-> c.count,
                                   Limit   |-> r.page.limit,
                                   Offset  |-> r.page.offset,
                                   HasMore |-> HasMore(r.page.limit, r.page.offset,
                                                       c.count)]]
    /\ UNCHANGED <<store, nextId, now, ops, calls, deleted, pwHist, tx, server, probe>>

(***************************************************************************)
(* The server: requests arrive with any input and run concurrently.        *)
(***************************************************************************)
CreateDtos ==
    {[NoDto EXCEPT !.Email = e, !.Name = n, !.Password = p] :
        e \in RawEmails, n \in Names, p \in Passwords}

UpdateDtos == {[NoDto EXCEPT !.Email = e, !.Name = n] : e \in RawEmails, n \in Names}

PasswordDtos ==
    {[NoDto EXCEPT !.OldPassword = o, !.NewPassword = n] : o \in Passwords, n \in Passwords}

\* time.Now(): the clock never runs backwards
Clock == {t \in Times : t >= now}

\* the ids a client sends: those of the stored users, and one of no user
RequestIds == DOMAIN store \cup {UnknownId}

Next ==
    \/ \E dto \in CreateDtos : CreateUserCheck(dto)
    \/ \E r \in inflight, t \in Clock : CreateUserSave(r, t)
    \/ \E id \in RequestIds : GetUserCall(id)
    \/ \E id \in RequestIds, t \in Clock : DeleteUserCall(id, t)
    \/ \E id \in RequestIds, dto \in UpdateDtos : UpdateUserFind(id, dto)
    \/ \E r \in inflight : UpdateUserCheckEmail(r)
    \/ \E r \in inflight, t \in Clock : UpdateUserWrite(r, t)
    \/ \E id \in RequestIds : ActivateUserFind(id)
    \/ \E r \in inflight, t \in Clock : ActivateUserWrite(r, t)
    \/ \E id \in RequestIds : DeactivateUserFind(id)
    \/ \E r \in inflight, t \in Clock : DeactivateUserWrite(r, t)
    \/ \E id \in RequestIds, dto \in PasswordDtos : ChangePasswordFind(id, dto)
    \/ \E r \in inflight, t \in Clock : ChangePasswordWrite(r, t)

Spec == Init /\ [][Next]_vars

(***************************************************************************)
(* The HTTP layer.  A request arrives as its path parameter and its body;  *)
(* the handler parses them and calls the service only when both parse.  A  *)
(* request that no route matches, and every error a handler returns, goes  *)
(* to the application's ErrorHandler.                                      *)
(***************************************************************************)
\* c.Params("id"): the text of a uuid, or a text that is none
PathParams ==
    {[text |-> "uuid", id |-> k] : k \in RequestIds} \cup {[text |-> "not-a-uuid", id |-> 0]}

\* the error of uuid.Parse is dropped: the zero uuid is used
uuidParseUnchecked(param) ==
    IF param.text = "uuid" THEN [err |-> Nil, id |-> param.id] ELSE [err |-> Nil, id |-> 0]

\* uuid.Parse
uuidParse(param) ==
    IF param.text = "uuid"
    THEN [err |-> Nil, id |-> param.id]
    ELSE [err |-> ErrorsNew("invalid UUID length"), id |-> 0]

\* a request body: JSON with the fields of the request, or bytes that are none
JsonBody(fields) == [kind |-> "json", fields |-> fields]

MalformedBody == [kind |-> "malformed", fields |-> NoDto]

\* c.BodyParser(&req)
BodyParser(body) ==
    IF body.kind = "json"
    THEN [err |-> Nil, req |-> body.fields]
    ELSE [err |-> ErrorsNew("unexpected end of JSON input"), req |-> NoDto]

\* the handler answers 400 itself, before any call of the service
BadRequest(op, err, code, message) ==
    /\ CanStart
    /\ ops' = ops + 1
    /\ last' = [rid |-> ops + 1, op |-> op, id |-> 0, dto |-> NoDto, err |-> err,
                out |-> NoDTO, status |-> 400,
                body |-> [Error |-> code, Message |-> message], list |-> NoList]
    /\ UNCHANGED <<store, nextId, now, calls, inflight, deleted, pwHist, tx, server, probe>>

HandleCreateUser(body) ==
    LET b == BodyParser(body)
    IN  IF b.err # Nil
        THEN BadRequest("CreateUser", b.err, "invalid_request", "Invalid request body")
        ELSE CreateUserCheck(b.req)

HandleGetUser(param) ==
    LET u == uuidParse(param)
    IN  IF u.err # Nil
        THEN BadRequest("GetUser", u.err, "invalid_id", "Invalid user ID format")
        ELSE GetUserCall(u.id)

HandleUpdateUser(param, body) ==
    LET u == uuidParse(param)
        b == BodyParser(body)
    IN  IF u.err # Nil
        THEN BadRequest("UpdateUser", u.err, "invalid_id", "Invalid user ID format")
        ELSE IF b.err # Nil
        THEN BadRequest("UpdateUser", b.err, "invalid_request", "Invalid request body")
        ELSE UpdateUserFind(u.id, b.req)

HandleDeleteUser(param, t) ==
    LET u == uuidParse(param)
    IN  IF u.err # Nil
        THEN BadRequest("DeleteUser", u.err, "invalid_id", "Invalid user ID format")
        ELSE DeleteUserCall(u.id, t)

HandleChangePassword(param, body) ==
    LET u == uuidParse(param)
        b == BodyParser(body)
    IN  IF u.err # Nil
        THEN BadRequest("ChangePassword", u.err, "invalid_id", "Invalid user ID format")
        ELSE IF b.err # Nil
        THEN BadRequest("ChangePassword", b.err, "invalid_request", "Invalid request body")
        ELSE ChangePasswordFind(u.id, b.req)

\* fiber.NewError(code, message)
FiberNewError(code, message) ==
    [chain |-> <<"fiber.Error">>, text |-> <<message>>, code |-> code]

\* err.(*fiber.Error)
IsFiberError(err) == "code" \in DOMAIN err

\* fiber.Config.ErrorHandler: the status and the body of the response
ErrorHandler(err) ==
    [status |-> IF IsFiberError(err) THEN err.code ELSE 500,
     body   |-> [Error |-> "internal_error", Message |-> err.text]]

\* what Fiber's router returns for a request that no route matches
RouterErrors ==
    {FiberNewError(404, "Cannot GET /nope"), FiberNewError(404, "Cannot GET /users/1/2"),
     FiberNewError(405, "Method Not Allowed")}

\* a request that no route matches: the router's error goes to the ErrorHandler
UnroutedRequest(err) ==
    /\ CanStart
    /\ ops' = ops + 1
    /\ last' = [rid |-> ops + 1, op |-> "none", id |-> 0, dto |-> NoDto, err |-> err,
                out |-> NoDTO, status |-> ErrorHandler(err).status,
                body |-> ErrorHandler(err).body, list |-> NoList]
    /\ UNCHANGED <<store, nextId, now, calls, inflight, deleted, pwHist, tx, server, probe>>

HttpCreateBodies ==
    {JsonBody([NoDto EXCEPT !.Email = e, !.Name = n, !.Password = p]) :
        e \in {EmailA, EmailB, EmailNoTld, EmailEmpty}, n \in {"", "Ann"},
        p \in {"short", "password1"}} \cup {MalformedBody}

HttpUpdateBodies ==
    {JsonBody([NoDto EXCEPT !.Email = e, !.Name = n]) :
        e \in {EmailA, EmailB}, n \in {"", "Bob"}}
        \cup {MalformedBody}

HttpPasswordBodies ==
    {JsonBody([NoDto EXCEPT !.OldPassword = o, !.NewPassword = n]) :
        o \in {"password1", "password2"}, n \in {"short", "password2"}}
        \cup {MalformedBody}

HttpQueries ==
    {[limit |-> [present |-> FALSE, value |-> 0], offset |-> o] :
        o \in {[present |-> FALSE, value |-> 0],
               [present |-> TRUE, value |-> 2^(Int32Bits - 1)]}}

HttpNext ==
    \/ \E body \in HttpCreateBodies : HandleCreateUser(body)
    \/ \E r \in inflight, t \in Clock : CreateUserSave(r, t)
    \/ \E param \in PathParams : HandleGetUser(param)
    \/ \E param \in PathParams, body \in HttpUpdateBodies : HandleUpdateUser(param, body)
    \/ \E r \in inflight : UpdateUserCheckEmail(r)
    \/ \E r \in inflight, t \in Clock : UpdateUserWrite(r, t)
    \/ \E param \in PathParams, t \in Clock : HandleDeleteUser(param, t)
    \/ \E param \in PathParams, body \in HttpPasswordBodies :
          HandleChangePassword(param, body)
    \/ \E r \in inflight, t \in Clock : ChangePasswordWrite(r, t)
    \/ \E query \in HttpQueries, order \in Orderings(store) : ListUsersList(query, order)
    \/ \E r \in inflight : ListUsersCount(r)
    \/ \E err \in RouterErrors : UnroutedRequest(err)

HttpSpec == Init /\ [][HttpNext]_vars

(***************************************************************************)
(* The server under CreateUser, DeleteUser and ListUsers requests, with    *)
(* the query parameters a client can send.                                 *)
(***************************************************************************)
\* ListUsers requests that are in flight at the same time
MaxLists == 1

PendingLists == Cardinality({r \in inflight : r.op = "ListUsers"})

ListCreateDtos ==
    {[NoDto EXCEPT !.Email = e, !.Name = "Ann", !.Password = "password1"] :
        e \in {EmailA, EmailB}}

Present(values) == {[present |-> TRUE, value |-> v] : v \in values}

Absent == [present |-> FALSE, value |-> 0]

QueryLimits == Present({0 - 1, 0, 1, MaxLimit, MaxLimit + 1, 1000}) \cup {Absent}

QueryOffsets ==
    Present({0 - 1, 0, 1, 2^(Int32Bits - 1), 2^Int32Bits, MaxInt}) \cup {Absent}

Queries == {[limit |-> l, offset |-> o] : l \in QueryLimits, o \in QueryOffsets}

ListNext ==
    \/ \E dto \in ListCreateDtos : CreateUserCheck(dto)
    \/ \E r \in inflight, t \in Clock : CreateUserSave(r, t)
    \/ \E id \in RequestIds, t \in Clock : DeleteUserCall(id, t)
    \/ \E query \in Queries, order \in Orderings(store) :
          PendingLists < MaxLists /\ ListUsersList(query, order)
    \/ \E r \in inflight : ListUsersCount(r)

ListSpec == Init /\ [][ListNext]_vars

(***************************************************************************)
(* txManager.WithTransaction.  Each call c has its own transaction; log    *)
(* lists the calls of Commit and Rollback made on it, in order.  fn is the *)
(* caller's function: it returns nil, returns an error, or panics.         *)
(***************************************************************************)
\* errors of the pool and of the transaction
ErrConnClosed == ErrorsNew("conn closed")

ErrTxClosed == ErrorsNew("tx is closed")

\* what fn may do: return nil, return an error (plain or wrapped), panic with a value
FnOutcomes ==
    {[kind |-> "return", err |-> e, value |-> ""] :
        e \in {Nil, ErrEmailAlreadyExists, Errorf("failed to save user", ErrEmailAlreadyExists)}}
    \cup {[kind |-> "panic", err |-> Nil, value |-> v] : v \in {"boom", "index out of range"}}

\* fmt.Errorf("failed to rollback transaction: %w (original error: %v)", rbErr, err)
RollbackFailed(rbErr, err) ==
    [chain |-> <<"failed to rollback transaction">> \o rbErr.chain,
     text |-> <<"failed to rollback transaction", ":">> \o rbErr.text
              \o <<"(original error:">> \o err.text \o <<")">>]

TxStep(c, next) ==
    /\ tx' = [tx EXCEPT ![c] = next]
    /\ UNCHANGED <<store, nextId, now, ops, calls, inflight, last, deleted, pwHist, server, probe>>

\* tm.pool.Begin; a failure is returned at once and nothing is deferred
WithTransactionBegin(c, err) ==
    /\ tx[c].pc = "idle"
    /\ TxStep(c, IF err # Nil
                 THEN [tx[c] EXCEPT !.pc = "done",
                                    !.result = Errorf("failed to begin transaction", err)]
                 ELSE [tx[c] EXCEPT !.pc = "fn"])

\* fn(ctx, tx) returns or panics
WithTransactionFn(c, outcome) ==
    /\ tx[c].pc = "fn"
    /\ TxStep(c, [tx[c] EXCEPT !.fn = outcome,
                               !.pc = IF outcome.kind = "panic" THEN "recover"
                                      ELSE IF outcome.err # Nil THEN "rollback"
                                      ELSE "commit"])

\* fn returned an error: tx.Rollback, then return
WithTransactionRollback(c, rbErr) ==
    /\ tx[c].pc = "rollback"
    /\ TxStep(c, [tx[c] EXCEPT !.log = Append(@, "Rollback"),
                               !.result = IF rbErr # Nil
                                          THEN RollbackFailed(rbErr, tx[c].fn.err)
                                          ELSE tx[c].fn.err,
                               !.pc = "done"])

\* fn returned nil: tx.Commit, then return
WithTransactionCommit(c, err) ==
    /\ tx[c].pc = "commit"
    /\ TxStep(c, [tx[c] EXCEPT !.log = Append(@, "Commit"),
                               !.result = IF err # Nil
                                          THEN Errorf("failed to commit transaction", err)
                                          ELSE Nil,
                               !.pc = "done"])

\* the deferred function re-panics without rolling back
WithTransactionRecoverNoRollback(c, rbErr) ==
    /\ tx[c].pc = "recover"
    /\ TxStep(c, [tx[c] EXCEPT !.pc = "repanic"])

\* the deferred function after a panic: recover() is not nil, tx.Rollback, its
\* error dropped
WithTransactionRecover(c, rbErr) ==
    /\ tx[c].pc = "recover"
    /\ TxStep(c, [tx[c] EXCEPT !.log = Append(@, "Rollback"), !.pc = "repanic"])

\* panic(p) with the recovered value
WithTransactionRepanic(c) ==
    /\ tx[c].pc = "repanic"
    /\ TxStep(c, [tx[c] EXCEPT !.raised = tx[c].fn.value, !.pc = "panicked"])

TxNext ==
    \/ \E c \in TxCalls, err \in {Nil, ErrConnClosed} : WithTransactionBegin(c, err)
    \/ \E c \in TxCalls, outcome \in FnOutcomes : WithTransactionFn(c, outcome)
    \/ \E c \in TxCalls, rbErr \in {Nil, ErrTxClosed} : WithTransactionRollback(c, rbErr)
    \/ \E c \in TxCalls, err \in {Nil, ErrTxClosed} : WithTransactionCommit(c, err)
    \/ \E c \in TxCalls, rbErr \in {Nil, ErrTxClosed} : WithTransactionRecover(c, rbErr)
    \/ \E c \in TxCalls : WithTransactionRepanic(c)

TxSpec == Init /\ [][TxNext]_vars

(***************************************************************************)
(* The process: main blocked in app.Listen, and the shutdown goroutine.    *)
(* A request is accepted while the listener is open; its handler runs      *)
(* until it has answered or the process has exited.                        *)
(***************************************************************************)
Running == server.main # "exited"

\* the error of a query on a closed pool
ErrClosedPool == ErrorsNew("closed pool")

\* <-sigChan, then app.ShutdownWithTimeout closes the listener
SignalReceived ==
    /\ Running
    /\ server.shutdown = "waiting"
    /\ server' = [server EXCEPT !.shutdown = "shutdown", !.listening = FALSE]
    /\ UNCHANGED <<store, nextId, now, ops, calls, inflight, last, deleted, pwHist, tx, probe>>

\* app.ShutdownWithTimeout returns: nil once no request is in flight, or an
\* error when the 10 seconds are over; the goroutine goes on in both cases
ShutdownWithTimeout(timedOut) ==
    /\ Running
    /\ server.shutdown = "shutdown"
    /\ timedOut \/ inflight = {}
    /\ server' = [server EXCEPT !.shutdown = "closing"]
    /\ UNCHANGED <<store, nextId, now, ops, calls, inflight, last, deleted, pwHist, tx, probe>>

\* pool.Close() of the shutdown goroutine
ShutdownPoolClose ==
    /\ Running
    /\ server.shutdown = "closing"
    /\ server' = [server EXCEPT !.shutdown = "stopped", !.pool = "closed"]
    /\ UNCHANGED <<store, nextId, now, ops, calls, inflight, last, deleted, pwHist, tx, probe>>

\* app.Listen returns nil when the listener has been closed
ListenReturns ==
    /\ server.main = "listen"
    /\ ~server.listening
    /\ server' = [server EXCEPT !.main = "returned"]
    /\ UNCHANGED <<store, nextId, now, ops, calls, inflight, last, deleted, pwHist, tx, probe>>

\* main returns: the deferred pool.Close() runs and the process exits
MainReturns ==
    /\ server.main = "returned"
    /\ server' = [server EXCEPT !.main = "exited", !.pool = "closed"]
    /\ UNCHANGED <<store, nextId, now, ops, calls, inflight, last, deleted, pwHist, tx, probe>>

\* CreateUser's Save when the pool is closed: the query fails, nothing is written
CreateUserSaveOnClosedPool(r, t) ==
    /\ r.op = "CreateUser" /\ r.pc = "save"
    /\ nextId <= MaxIds
    /\ inflight' = inflight \ {r}
    /\ LET n == NewUser(r.email, r.dto.Name, hashPassword(r.dto.Password), nextId, t)
       IN  IF n.err # Nil
           THEN /\ Respond(r.rid, "CreateUser", 0, r.dto,
                           Errorf("failed to create user entity", n.err), NoDTO, 201)
                /\ UNCHANGED <<nextId, now>>
           ELSE /\ nextId' = nextId + 1
                /\ now' = t
                /\ Respond(r.rid, "CreateUser", 0, r.dto,
                           Errorf("failed to save user",
                                  Errorf("failed to create user", ErrClosedPool)),
                           NoDTO, 201)
    /\ UNCHANGED <<store, ops, calls, deleted, pwHist, tx, server, probe>>

ShutdownNext ==
    \/ \E dto \in ListCreateDtos :
          Running /\ server.listening /\ CreateUserCheck(dto)
    \/ \E r \in inflight, t \in Clock :
          Running /\ server.pool = "open" /\ CreateUserSave(r, t)
    \/ \E r \in inflight, t \in Clock :
          Running /\ server.pool = "closed" /\ CreateUserSaveOnClosedPool(r, t)
    \/ \E id \in RequestIds :
          Running /\ server.listening /\ GetUserCall(id)
    \/ SignalReceived
    \/ \E timedOut \in BOOLEAN : ShutdownWithTimeout(timedOut)
    \/ ShutdownPoolClose
    \/ ListenReturns
    \/ MainReturns

ShutdownSpec == Init /\ [][ShutdownNext]_vars

(***************************************************************************)
(* domain.NewEmail on its own: two input strings are normalized, and the   *)
(* value of the first is constructed again, as toDomainUser does with the  *)
(* stored email.                                                           *)
(***************************************************************************)
EmailInputs ==
    {EmailA, EmailAMixed, EmailB, EmailNoTld, EmailEmpty,
     <<"A", "@", "X", ".", "I", "O">>,
     <<"\t", "a", "@", "x", ".", "i", "o", "\n">>,
     <<"a", " ", "@", "x", ".", "i", "o">>,
     <<" ", " ">>,
     <<"s", "@", "x", ".", "i", "o">>,
     <<"S", "@", "x", ".", "i", "o">>,
     <<LongS, "@", "x", ".", "i", "o">>}

EmailInit ==
    /\ Start
    /\ probe \in {[NoProbe EXCEPT !.pc = "input", !.a = a, !.b = b] : a, b \in EmailInputs}

\* NewEmail(a), NewEmail(b)
NewEmailCall ==
    /\ probe.pc = "input"
    /\ probe' = [probe EXCEPT !.pc = "built", !.ra = NewEmail(probe.a),
                                              !.rb = NewEmail(probe.b)]
    /\ UNCHANGED <<store, nextId, now, ops, calls, inflight, last, deleted, pwHist, tx, server>>

\* toDomainUser: NewEmail of the value of an Email
NewEmailOfValue ==
    /\ probe.pc = "built"
    /\ probe.ra.err = Nil
    /\ probe' = [probe EXCEPT !.pc = "rebuilt", !.again = NewEmail(probe.ra.value)]
    /\ UNCHANGED <<store, nextId, now, ops, calls, inflight, last, deleted, pwHist, tx, server>>

EmailNext == NewEmailCall \/ NewEmailOfValue

EmailSpec == EmailInit /\ [][EmailNext]_vars

(***************************************************************************)
(* Vocabulary of the properties.                                           *)
(***************************************************************************)
\* two addresses are equal up to letter case and surrounding whitespace
SameAddress(a, b) == TrimSpace(ToLower(a)) = TrimSpace(ToLower(b))

ActiveIds == {k \in DOMAIN store : store[k].is_active}

\* this step produces the response of a request
Responds == last'.rid # last.rid

\* this step accepts a new request
Starts == ops' = ops + 1

\* a CreateUser input that passes the service's input validation
ValidCreate(dto) == dto.Email # <<>> /\ dto.Name # "" /\ Len(dto.Password) >= 8

\* the request this step accepts: it is answered at once or waits in flight
Started ==
    IF last'.rid = ops'
    THEN [op |-> last'.op, id |-> last'.id, dto |-> last'.dto]
    ELSE LET r == CHOOSE q \in inflight' : q.rid = ops'
         IN  [op |-> r.op, id |-> r.id, dto |-> r.dto]

\* this step answers the request it accepts
AnsweredAtOnce == last'.rid = ops'

(***************************************************************************)
(* C1.  In every reachable state, whatever CreateUser, UpdateUser,         *)
(* DeleteUser, ActivateUser, DeactivateUser and ChangePassword requests    *)
(* have run and however they interleaved, no two active users hold the     *)
(* same normalized email.                                                  *)
(***************************************************************************)
C1_UniqueActiveEmail ==
    \A i \in ActiveIds, j \in ActiveIds :
        i # j => ~SameAddress(store[i].email, store[j].email)

\* two active users exist and a request has been refused for its email
C1_Witness ==
    /\ Cardinality(ActiveIds) >= 2
    /\ ErrorsIs(last.err, ErrEmailAlreadyExists)

(***************************************************************************)
(* C2.  After CreateUser(e) and DeleteUser of the created user have both   *)
(* succeeded, a CreateUser with the same email e, a valid name and a       *)
(* password of at least 8 characters succeeds and returns a new active     *)
(* user.  Stated on the response: a valid CreateUser that was accepted     *)
(* after DeleteUser had succeeded for the user that holds its email is     *)
(* answered with success.                                                  *)
(***************************************************************************)
C2_ReuseAfterDelete ==
    ( /\ last.op = "CreateUser"
      /\ ValidCreate(last.dto)
      /\ \E d \in deleted :
            /\ d.rid < last.rid
            /\ d.id \in DOMAIN store
            /\ ~store[d.id].is_active
            /\ SameAddress(store[d.id].email, last.dto.Email) )
    => ( /\ last.err = Nil
         /\ last.status = 201
         /\ last.out.IsActive
         /\ last.out.ID \in ActiveIds )

(***************************************************************************)
(* C3.  Once DeleteUser(id) has returned success for a user, every later   *)
(* GetUser(id) fails with UserNotFound and the row is still in the table   *)
(* with is_active = false.                                                 *)
(***************************************************************************)
C3_DeletedStaysDeleted ==
    \A d \in deleted :
        d.id # UnknownId =>
            /\ GetUser(store, d.id).err = ErrUserNotFound
            /\ d.id \in DOMAIN store
            /\ ~store[d.id].is_active

C5_RaceLoserGetsConflict ==
    [][ \A r \in inflight :
          ( /\ r.op = "CreateUser" /\ r.pc = "save"
            /\ r \notin inflight'
            /\ \E k \in DOMAIN store : store[k].email = r.email )
          => ( /\ store' = store
               /\ last'.rid = r.rid
               /\ last'.err # ErrEmailAlreadyExists
               /\ ErrorsIs(last'.err, ErrEmailAlreadyExists)
               /\ last'.status = handleError(ErrEmailAlreadyExists)
               /\ last'.status = 409 ) ]_vars

\* only two requests were ever accepted, both CreateUser with one email: the first
\* inserted the row, the Save of the second was refused
C5_Witness ==
    /\ ops = 2
    /\ inflight = {}
    /\ last.op = "CreateUser"
    /\ last.err = Errorf("failed to save user", ErrEmailAlreadyExists)
    /\ last.status = 409
    /\ Cardinality({k \in ActiveIds : SameAddress(store[k].email, last.dto.Email)}) = 1

(***************************************************************************)
(* C6.  DeleteUser(id) for an id that matches no stored user fails with    *)
(* UserNotFound (404) and leaves the table unchanged.                      *)
(***************************************************************************)
C6_DeleteMissingIsNotFound ==
    [][ ( /\ Responds
          /\ last'.op = "DeleteUser"
          /\ last'.id \notin DOMAIN store )
        => ( /\ ErrorsIs(last'.err, ErrUserNotFound)
             /\ last'.status = 404
             /\ store' = store ) ]_vars

(***************************************************************************)
(* C7.  ActivateUser(id) on a user that DeactivateUser or DeleteUser has   *)
(* made inactive succeeds, sets the stored is_active to true and returns   *)
(* the user with is_active = true.                                         *)
(***************************************************************************)
C7_ActivateRestores ==
    [][ ( /\ Responds
          /\ last'.op = "ActivateUser"
          /\ last'.id \in DOMAIN store
          /\ ~store[last'.id].is_active )
        => ( /\ last'.err = Nil
             /\ store'[last'.id].is_active
             /\ last'.out.IsActive ) ]_vars

(***************************************************************************)
(* C8.  ChangePassword(id, old, new) for a user whose stored hash is not   *)
(* the hash of old fails with InvalidPassword (401); the request ends      *)
(* there, and the table - the stored hash and every other field - is as    *)
(* it was.                                                                 *)
(***************************************************************************)
C8_WrongOldPasswordRejected ==
    [][ ( /\ Starts
          /\ Started.op = "ChangePassword"
          /\ Started.id \in ActiveIds
          /\ store[Started.id].password_hash # hashPassword(Started.dto.OldPassword) )
        => ( /\ AnsweredAtOnce
             /\ last'.err = ErrInvalidPassword
             /\ last'.status = 401
             /\ inflight' = inflight
             /\ store' = store ) ]_vars

\* a ChangePassword with the other password as old password has been refused
C8_Witness ==
    /\ last.op = "ChangePassword"
    /\ last.err = ErrInvalidPassword
    /\ last.id \in ActiveIds
    /\ last.dto.OldPassword = "password2"
    /\ store[last.id].password_hash = hashPassword("password1")

C10_CreateThenGet ==
    (last.op = "CreateUser" /\ last.err = Nil)
    => LET g == GetUser(store, last.out.ID)
       IN  /\ g.err = Nil
           /\ g.out.ID = last.out.ID
           /\ g.out.Name = last.dto.Name
           /\ g.out.Email = TrimSpace(ToLower(last.dto.Email))
           /\ g.out.IsActive
           /\ g.out.CreatedAt = g.out.UpdatedAt

\* a user was created from an address in mixed case with blanks, late on the clock
C10_Witness ==
    /\ last.op = "CreateUser"
    /\ last.err = Nil
    /\ last.dto.Email = EmailAMixed
    /\ last.out.CreatedAt > 0
    /\ GetUser(store, last.out.ID).out.Email = EmailA

(***************************************************************************)
(* C11.  An UpdateUser(id, name, email) with a non-empty name whose email,  *)
(* trimmed and lower-cased, is the email the active user id holds is        *)
(* answered with success (200): the user's own email is no conflict, and    *)
(* the row keeps the email and takes the name.                              *)
(***************************************************************************)
C11_OwnEmailIsNoConflict ==
    [][ ( /\ Responds
          /\ last'.op = "UpdateUser"
          /\ last'.id \in ActiveIds
          /\ last'.dto.Name # ""
          /\ SameAddress(store[last'.id].email, last'.dto.Email) )
        => ( /\ last'.err = Nil
             /\ last'.status = 200
             /\ store'[last'.id].email = store[last'.id].email
             /\ store'[last'.id].name = last'.dto.Name
             /\ last'.out.Email = store[last'.id].email ) ]_vars

\* two users hold a@x.io and b@x.io; the UpdateUser that wrote the first address in
\* another case, with blanks, for its own holder has succeeded
C11_Witness ==
    /\ last.op = "UpdateUser"
    /\ last.err = Nil
    /\ last.dto.Email = EmailAMixed
    /\ last.id \in ActiveIds
    /\ store[last.id].email = EmailA
    /\ store[last.id].name = last.dto.Name
    /\ \E k \in ActiveIds : store[k].email = EmailB

(***************************************************************************)
(* C12.  An UpdateUser(A, name, email) whose email, trimmed and             *)
(* lower-cased, is held by an active user B other than the active user A    *)
(* fails with EmailAlreadyExists and leaves the table, the rows of A and B  *)
(* included, unchanged.  As stated: for every name.                         *)
(***************************************************************************)
C12_ConflictingEmailRejected ==
    [][ ( /\ Responds
          /\ last'.op = "UpdateUser"
          /\ last'.id \in ActiveIds
          /\ \E b \in ActiveIds :
                b # last'.id /\ SameAddress(store[b].email, last'.dto.Email) )
        => ( /\ ErrorsIs(last'.err, ErrEmailAlreadyExists)
             /\ store' = store ) ]_vars

(***************************************************************************)
(* C12, amended.  The same for every non-empty name: the name is validated  *)
(* before the email is looked at.  The answer is 409, whether the lookup or *)
(* the UPDATE itself finds the conflict.                                    *)
(***************************************************************************)
C12_ConflictingEmailRejectedNamed ==
    [][ ( /\ Responds
          /\ last'.op = "UpdateUser"
          /\ last'.id \in ActiveIds
          /\ last'.dto.Name # ""
          /\ \E b \in ActiveIds :
                b # last'.id /\ SameAddress(store[b].email, last'.dto.Email) )
        => ( /\ ErrorsIs(last'.err, ErrEmailAlreadyExists)
             /\ last'.status = 409
             /\ store' = store ) ]_vars

\* A holds a@x.io, B holds b@x.io, and the UpdateUser of one to the address of the
\* other has been refused
C12_Witness ==
    /\ last.op = "UpdateUser"
    /\ last.id \in ActiveIds
    /\ last.dto.Name # ""
    /\ ErrorsIs(last.err, ErrEmailAlreadyExists)
    /\ last.status = 409
    /\ \E b \in ActiveIds :
          /\ b # last.id
          /\ store[b].email = TrimSpace(ToLower(last.dto.Email))
          /\ store[last.id].email # store[b].email

(***************************************************************************)
(* Vocabulary of the ListUsers properties.                                 *)
(***************************************************************************)
\* the effective limit and offset of a request
EffectiveLimit(n) == IF n <= 0 THEN 10 ELSE IF n > 100 THEN 100 ELSE n

EffectiveOffset(n) == IF n < 0 THEN 0 ELSE n

\* the ids of the users of a response, in the order of the response
UserIds(list) == [i \in 1..Len(list.Users) |-> list.Users[i].ID]

\* this step answers the ListUsers request r with its count query
Counts(r) == r.op = "ListUsers" /\ r.pc = "count" /\ r \notin inflight'

\* nothing was written between the page query and the count query of r
Quiescent(r) == r.page.snapshot = store

(***************************************************************************)
(* C13.  For every integer limit and offset, ListUsers runs its queries    *)
(* and answers; the limit and the offset it reports are the effective      *)
(* ones (limit <= 0 gives 10, limit > 100 gives 100, offset < 0 gives 0,   *)
(* any other value is kept), they lie in [1,100] and in [0, ...), and they *)
(* are the values given to the page query.                                 *)
(***************************************************************************)
C13_EffectiveLimitAndOffset ==
    [][ /\ (Starts /\ Started.op = "ListUsers") => ~AnsweredAtOnce
        /\ \A r \in inflight :
              Counts(r)
              => ( /\ last'.rid = r.rid
                   /\ last'.err = Nil
                   /\ last'.list.Limit = EffectiveLimit(r.dto.Limit)
                   /\ last'.list.Offset = EffectiveOffset(r.dto.Offset)
                   /\ last'.list.Limit \in 1..100
                   /\ last'.list.Offset >= 0
                   /\ r.page.params.Limit = last'.list.Limit
                   /\ r.page.params.Offset = last'.list.Offset ) ]_vars

(***************************************************************************)
(* C14.  In every ListUsers response has_more is (offset + limit < total)  *)
(* for the limit, offset and total of the response; and when nothing was   *)
(* written between the two queries, has_more is true exactly when active   *)
(* users come after the users of the returned page in the order of         *)
(* creation, newest first.                                                 *)
(***************************************************************************)
C14_HasMore ==
    [][ \A r \in inflight :
          Counts(r)
          => ( /\ last'.list.HasMore
                    <=> (last'.list.Offset + last'.list.Limit < last'.list.Total)
               /\ (Quiescent(r) /\ last'.list.Users # <<>>)
                    => \E o \in Orderings(store),
                          k \in 0..(Cardinality(ActiveIds) - Len(last'.list.Users)) :
                          /\ SubSeq(o, k + 1, k + Len(last'.list.Users)) = UserIds(last'.list)
                          /\ last'.list.HasMore <=> (k + Len(last'.list.Users) < Len(o))
               /\ (Quiescent(r) /\ last'.list.Users = <<>>)
                    => (last'.list.HasMore <=> last'.list.Offset + last'.list.Limit
                                                 < Cardinality(ActiveIds)) ) ]_vars

\* the arithmetic alone: has_more is (offset + limit < total) in every response
C14_HasMoreArithmetic ==
    [][ \A r \in inflight :
          Counts(r)
          => (last'.list.HasMore
                <=> (last'.list.Offset + last'.list.Limit < last'.list.Total)) ]_vars

(***************************************************************************)
(* C15.  When nothing was written between the two queries of a ListUsers   *)
(* request, the users of the response are the active users at positions    *)
(* [offset, offset + limit) of an order of the active users by created_at  *)
(* descending, for the limit and offset of the response; none of them is   *)
(* inactive; and total is the number of active users.                      *)
(***************************************************************************)
C15_ListIsThePage ==
    [][ \A r \in inflight :
          (Counts(r) /\ Quiescent(r))
          => ( /\ \E o \in Orderings(store) :
                     UserIds(last'.list) = Page(o, last'.list.Limit, last'.list.Offset)
               /\ \A i \in 1..Len(last'.list.Users) :
                     /\ last'.list.Users[i].ID \in ActiveIds
                     /\ last'.list.Users[i].IsActive
               /\ last'.list.Total = Cardinality(ActiveIds) ) ]_vars

(***************************************************************************)
(* Vocabulary of the HTTP properties.                                      *)
(***************************************************************************)
\* err is target or wraps it, at any depth
Wraps(err, target) == target.chain[1] \in Range(err.chain)

\* a path parameter that is no uuid; a body that is no JSON
BadParam(param) == param.text # "uuid"

BadBody(body) == body.kind # "json"

\* this step answers a new request with 400 and the service is not called: no
\* query is run, nothing is written, no request is left in flight
Rejected ==
    /\ ops' = ops + 1
    /\ last'.rid = ops'
    /\ last'.status = 400
    /\ calls' = calls
    /\ inflight' = inflight
    /\ store' = store

\* the errors with which the handlers reject a request themselves
ParseErrors == {uuidParse([text |-> "not-a-uuid", id |-> 0]).err, BodyParser(MalformedBody).err}

DomainErrors ==
    {ErrUserNotFound, ErrEmailAlreadyExists, ErrInvalidEmail, ErrInvalidPassword,
     ErrUserInactive}

(***************************************************************************)
(* C16.  A GetUser, UpdateUser, DeleteUser or ChangePassword request whose *)
(* path id is no uuid, and a CreateUser, UpdateUser or ChangePassword      *)
(* request whose body does not parse, is answered 400 by the handler, and  *)
(* the service is not called: no query runs and the table is untouched.    *)
(***************************************************************************)
C16_MalformedRequestRejected ==
    [][ /\ \A param \in PathParams :
              BadParam(param)
              => ( /\ HandleGetUser(param) => Rejected
                   /\ \A t \in Times : HandleDeleteUser(param, t) => Rejected
                   /\ \A body \in HttpUpdateBodies :
                         HandleUpdateUser(param, body) => Rejected
                   /\ \A body \in HttpPasswordBodies :
                         HandleChangePassword(param, body) => Rejected )
        /\ \A body \in HttpCreateBodies \cup HttpUpdateBodies \cup HttpPasswordBodies :
              BadBody(body)
              => ( /\ HandleCreateUser(body) => Rejected
                   /\ \A param \in PathParams :
                         /\ HandleUpdateUser(param, body) => Rejected
                         /\ HandleChangePassword(param, body) => Rejected ) ]_vars

\* with a user in the table, a ChangePassword whose path id is no uuid has been
\* answered 400, and fewer service calls than requests have been made
C16_Witness ==
    /\ DOMAIN store # {}
    /\ last.op = "ChangePassword"
    /\ last.err = ErrorsNew("invalid UUID length")
    /\ last.status = 400
    /\ calls < ops

(***************************************************************************)
(* C17.  Whatever operation produced it, an error that is or wraps         *)
(* UserNotFound is answered 404, one that is or wraps EmailAlreadyExists   *)
(* 409, InvalidEmail 400 and InvalidPassword 401.                          *)
(***************************************************************************)
C17_DomainErrorsHaveFixedStatus ==
    /\ Wraps(last.err, ErrUserNotFound) => last.status = 404
    /\ Wraps(last.err, ErrEmailAlreadyExists) => last.status = 409
    /\ Wraps(last.err, ErrInvalidEmail) => last.status = 400
    /\ Wraps(last.err, ErrInvalidPassword) => last.status = 401

\* an UpdateUser was answered 409 for an EmailAlreadyExists that the service wrapped
C17_Witness ==
    /\ last.op = "UpdateUser"
    /\ last.err # ErrEmailAlreadyExists
    /\ Wraps(last.err, ErrEmailAlreadyExists)
    /\ Len(last.err.chain) > 1
    /\ last.status = 409

(***************************************************************************)
(* C18.  A request whose body parses but breaks an input rule - CreateUser *)
(* with an empty email, an empty name or a password of fewer than 8        *)
(* characters; UpdateUser of an active user with an empty name;            *)
(* ChangePassword of an active user with the right old password and a new  *)
(* password of fewer than 8 characters - is answered 400.                  *)
(***************************************************************************)
C18_ValidationIsBadRequest ==
    [][ ( /\ Responds
          /\ last'.err \notin ParseErrors
          /\ \/ /\ last'.op = "CreateUser"
                /\ \/ last'.dto.Email = <<>>
                   \/ last'.dto.Name = ""
                   \/ Len(last'.dto.Password) < 8
             \/ /\ last'.op = "UpdateUser"
                /\ last'.id \in ActiveIds
                /\ last'.dto.Name = ""
             \/ /\ last'.op = "ChangePassword"
                /\ last'.id \in ActiveIds
                /\ verifyPassword(store[last'.id].password_hash,
                                  last'.dto.OldPassword) = Nil
                /\ Len(last'.dto.NewPassword) < 8 )
        => last'.status = 400 ]_vars

(***************************************************************************)
(* C19.  Every error that is none of the recognized kinds (the domain      *)
(* errors, and the malformed requests the handlers reject) is answered     *)
(* with the same response: status 500, code internal_error and the fixed   *)
(* message, whatever the text of the error, through handleError and        *)
(* through the application's ErrorHandler.                                 *)
(***************************************************************************)
C19_UnrecognizedErrorsLookAlike ==
    ( /\ last.err # Nil
      /\ last.err \notin ParseErrors
      /\ \A d \in DomainErrors : ~Wraps(last.err, d) )
    => ( /\ last.status = 500
         /\ last.body = [Error |-> "internal_error",
                          Message |-> "An internal error occurred"] )

(***************************************************************************)
(* Vocabulary of the transaction properties.                               *)
(***************************************************************************)
\* Begin succeeded for call c, and the call is over: it returned or panicked
Begun(c) == tx[c].pc = "fn" \/ tx[c].fn.kind # "none"

Over(c) == tx[c].pc \in {"done", "panicked"}

FnReturnedNil(c) == tx[c].fn.kind = "return" /\ tx[c].fn.err = Nil

FnFailed(c) ==
    \/ tx[c].fn.kind = "return" /\ tx[c].fn.err # Nil
    \/ tx[c].fn.kind = "panic"

(***************************************************************************)
(* C20.  For every call of WithTransaction whose Begin succeeded: Commit   *)
(* and Rollback are called once between them, never both; Commit exactly   *)
(* when fn returned nil without panicking, Rollback exactly when fn        *)
(* returned an error or panicked; and when fn panicked, Rollback has been  *)
(* called before the panic leaves WithTransaction, with fn's value.        *)
(***************************************************************************)
C20_CommitOrRollbackOnce ==
    \A c \in TxCalls :
        /\ Len(tx[c].log) <= 1
        /\ ~Begun(c) => tx[c].log = <<>>
        /\ tx[c].log = <<"Commit">> => FnReturnedNil(c)
        /\ tx[c].log = <<"Rollback">> => FnFailed(c)
        /\ (Begun(c) /\ Over(c))
           => /\ Len(tx[c].log) = 1
              /\ FnReturnedNil(c) => tx[c].log = <<"Commit">>
              /\ FnFailed(c) => tx[c].log = <<"Rollback">>
        /\ tx[c].pc = "panicked"
           => /\ tx[c].fn.kind = "panic"
              /\ tx[c].log = <<"Rollback">>
              /\ tx[c].raised = tx[c].fn.value
        /\ tx[c].raised # "" => tx[c].pc = "panicked"

\* one call rolled back and re-raised fn's panic, and another committed and
\* returned nil
C20_Witness ==
    \E c, d \in TxCalls :
        /\ tx[c].pc = "panicked"
        /\ tx[c].raised = "boom"
        /\ tx[c].log = <<"Rollback">>
        /\ tx[d].pc = "done"
        /\ tx[d].log = <<"Commit">>
        /\ tx[d].result = Nil

(***************************************************************************)
(* C21.  When fn returned an error e, the error that WithTransaction       *)
(* returns is e or wraps e (errors.Is(result, e)), also when the rollback  *)
(* itself failed.                                                          *)
(***************************************************************************)
C21_FnErrorIsReturned ==
    \A c \in TxCalls :
        (tx[c].pc = "done" /\ tx[c].fn.kind = "return" /\ tx[c].fn.err # Nil)
        => Wraps(tx[c].result, tx[c].fn.err)

(***************************************************************************)
(* C22.  After SIGINT/SIGTERM the pool is closed only when every request   *)
(* in flight has completed: in no reachable state is a handler still       *)
(* running while the pool is closed.                                       *)
(***************************************************************************)
C22_PoolClosedAfterRequests ==
    server.pool = "closed" => inflight = {}

(***************************************************************************)
(* C23.  No step changes the id or the created_at of a stored user, or     *)
(* removes the row: whatever UpdateUser, ActivateUser, DeactivateUser,     *)
(* ChangePassword and DeleteUser do, a row keeps the id and the created_at *)
(* it got at CreateUser.                                                   *)
(***************************************************************************)
C23_IdAndCreatedAtAreFixed ==
    [][ \A id \in DOMAIN store :
            /\ id \in DOMAIN store'
            /\ store'[id].id = store[id].id
            /\ store'[id].created_at = store[id].created_at ]_vars

\* an UpdateUser has been answered 200 for a user whose row was written at a later
\* time than it was created, and the row has the id it is stored under
C23_Witness ==
    /\ last.op = "UpdateUser"
    /\ last.status = 200
    /\ last.id \in DOMAIN store
    /\ store[last.id].id = last.id
    /\ store[last.id].updated_at > store[last.id].created_at

(***************************************************************************)
(* C24.  With a clock that never runs backwards, every stored user has     *)
(* updated_at >= created_at in every reachable state.                      *)
(***************************************************************************)
C24_UpdatedNotBeforeCreated ==
    \A id \in DOMAIN store : store[id].updated_at >= store[id].created_at

\* a user created after time 0 has been deleted within the same unit of the
\* timestamp column
C24_Witness ==
    /\ last.op = "DeleteUser"
    /\ last.err = Nil
    /\ last.id \in DOMAIN store
    /\ ~store[last.id].is_active
    /\ store[last.id].created_at > 0
    /\ store[last.id].updated_at = store[last.id].created_at

(***************************************************************************)
(* Vocabulary of the email properties.                                     *)
(***************************************************************************)
\* Unicode simple case folding (strings.EqualFold): the letters of one orbit are
\* the same letter in different case; s, S and U+017F are one orbit
Fold(c) ==
    IF c = LongS THEN "s"
    ELSE IF \E k \in 1..Len(UpperLetters) : UpperLetters[k] = c
    THEN LowerLetters[CHOOSE k \in 1..Len(UpperLetters) : UpperLetters[k] = c]
    ELSE c

\* s without its leading and trailing white space
Core(s) ==
    LET inner == {i \in 1..Len(s) : s[i] \notin WhiteSpace}
    IN  IF inner = {} THEN <<>>
        ELSE [k \in 1..(1 + (CHOOSE i \in inner : \A j \in inner : j <= i)
                           - (CHOOSE i \in inner : \A j \in inner : i <= j))
                |-> s[k - 1 + (CHOOSE i \in inner : \A j \in inner : i <= j)]]

\* a and b differ only in letter case and in leading and trailing white space
SameUpToCaseAndSpace(a, b) ==
    /\ Len(Core(a)) = Len(Core(b))
    /\ \A i \in 1..Len(Core(a)) : Fold(Core(a)[i]) = Fold(Core(b)[i])

\* every character of s is an ASCII character
IsAscii(s) == LongS \notin Range(s)

Built == probe.pc \in {"built", "rebuilt"}

(***************************************************************************)
(* C25.  NewEmail is canonical: two input strings that differ only in      *)
(* letter case and leading/trailing white space both fail with             *)
(* InvalidEmail or both yield the same value; and NewEmail of the value of *)
(* an Email is that value again.                                           *)
(***************************************************************************)
C25_EmailIsCanonical ==
    /\ (Built /\ SameUpToCaseAndSpace(probe.a, probe.b))
       => \/ probe.ra.err = ErrInvalidEmail /\ probe.rb.err = ErrInvalidEmail
          \/ probe.ra.err = Nil /\ probe.rb.err = Nil /\ probe.ra.value = probe.rb.value
    /\ probe.pc = "rebuilt"
       => probe.again.err = Nil /\ probe.again.value = probe.ra.value

(***************************************************************************)
(* C25 (amended).  The same, for input strings of ASCII characters.        *)
(***************************************************************************)
C25_AsciiEmailIsCanonical ==
    /\ (Built /\ IsAscii(probe.a) /\ IsAscii(probe.b)
              /\ SameUpToCaseAndSpace(probe.a, probe.b))
       => \/ probe.ra.err = ErrInvalidEmail /\ probe.rb.err = ErrInvalidEmail
          \/ probe.ra.err = Nil /\ probe.rb.err = Nil /\ probe.ra.value = probe.rb.value
    /\ probe.pc = "rebuilt"
       => probe.again.err = Nil /\ probe.again.value = probe.ra.value

\* two different spellings of one address have been given the same value, and
\* the value has been constructed again
C25_Witness ==
    /\ probe.pc = "rebuilt"
    /\ probe.a # probe.b
    /\ probe.a = EmailAMixed
    /\ SameUpToCaseAndSpace(probe.a, probe.b)
    /\ probe.ra.value = EmailA
    /\ probe.rb.value = EmailA
    /\ probe.again.value = EmailA

(***************************************************************************)
(* C26.  The checks come in a fixed order.  ChangePassword: an id of no    *)
(* active user fails with UserNotFound whatever the passwords; then a      *)
(* wrong old password fails with InvalidPassword, also when the new        *)
(* password is shorter than 8 characters; only then is the length of the   *)
(* new password checked.  UpdateUser on an id of no active user fails with *)
(* UserNotFound, also when the name is empty.                              *)
(***************************************************************************)
C26_ChecksInOrder ==
    [][ Starts
        => /\ (Started.op = "ChangePassword" /\ Started.id \notin ActiveIds)
              => (AnsweredAtOnce /\ last'.err = ErrUserNotFound)
           /\ ( /\ Started.op = "ChangePassword"
                /\ Started.id \in ActiveIds
                /\ verifyPassword(store[Started.id].password_hash,
                                  Started.dto.OldPassword) # Nil )
              => (AnsweredAtOnce /\ last'.err = ErrInvalidPassword)
           /\ ( /\ Started.op = "ChangePassword"
                /\ Started.id \in ActiveIds
                /\ verifyPassword(store[Started.id].password_hash,
                                  Started.dto.OldPassword) = Nil
                /\ Len(Started.dto.NewPassword) < 8 )
              => ( /\ AnsweredAtOnce
                   /\ last'.err = ErrorsNew("password must be at least 8 characters") )
           /\ (Started.op = "UpdateUser" /\ Started.id \notin ActiveIds)
              => (AnsweredAtOnce /\ last'.err = ErrUserNotFound) ]_vars

\* a ChangePassword with a wrong old password and a new password that is too
\* short has been refused with InvalidPassword
C26_Witness ==
    /\ last.op = "ChangePassword"
    /\ last.id \in ActiveIds
    /\ verifyPassword(store[last.id].password_hash, last.dto.OldPassword) # Nil
    /\ Len(last.dto.NewPassword) < 8
    /\ last.err = ErrInvalidPassword

(***************************************************************************)
(* C27.  After a DeleteUser(id) that succeeded, an UpdateUser or           *)
(* ChangePassword request on the same id that was accepted, and read the   *)
(* user, before the delete does not write is_active = true back: when it   *)
(* is answered the row is still inactive and GetUser(id) fails.            *)
(***************************************************************************)
C27_StaleWriteKeepsDeleted ==
    [][ \A d \in deleted :
            ( /\ d.id \in DOMAIN store
              /\ Responds
              /\ last'.op \in {"UpdateUser", "ChangePassword"}
              /\ last'.id = d.id
              /\ last'.rid < d.rid )
            => ( /\ ~store'[d.id].is_active
                 /\ GetUser(store', d.id).err = ErrUserNotFound ) ]_vars

(***************************************************************************)
(* C28.  When a ChangePassword and an UpdateUser on the same user run      *)
(* concurrently and both succeed, neither write puts back the value the    *)
(* request read at fetch time: a successful UpdateUser leaves the stored   *)
(* password hash as the table has it, a successful ChangePassword leaves   *)
(* the stored name and email as the table has them, so the row ends with   *)
(* the new hash and the new name and email.                                *)
(***************************************************************************)
C28_NoLostUpdate ==
    [][ (Responds /\ last'.err = Nil /\ last'.id \in DOMAIN store)
        => /\ last'.op = "UpdateUser"
              => store'[last'.id].password_hash = store[last'.id].password_hash
           /\ last'.op = "ChangePassword"
              => /\ store'[last'.id].name = store[last'.id].name
                 /\ store'[last'.id].email = store[last'.id].email ]_vars

(***************************************************************************)
(* C29.  A ListUsers response agrees with one state of the table, also     *)
(* when a CreateUser or DeleteUser ran between its page query and its      *)
(* count query: a page that is not empty has offset + len(users) <= total, *)
(* and when has_more is false no active user lies beyond the page.         *)
(* (Stated for the offsets that reach the page query unchanged.)           *)
(***************************************************************************)
C29_ListIsOneSnapshot ==
    [][ \A r \in inflight :
          ( /\ Counts(r)
            /\ last'.err = Nil
            /\ r.page.params.Offset = r.page.offset )
          => ( /\ last'.list.Users # <<>>
                    => last'.list.Offset + Len(last'.list.Users) <= last'.list.Total
               /\ ~last'.list.HasMore
                    => Cardinality(ActiveIds)
                         <= last'.list.Offset + Len(last'.list.Users) ) ]_vars

(***************************************************************************)
(* C30.  A CreateUser, UpdateUser, ChangePassword, ActivateUser or         *)
(* DeactivateUser that returns an error has written nothing: the step      *)
(* that answers it with the error leaves the table as it is, and so does   *)
(* every step of a request before its answer; no row is inserted or        *)
(* modified on a failing path.                                             *)
(***************************************************************************)
C30_FailureWritesNothing ==
    [][ /\ ( /\ Responds
             /\ last'.err # Nil
             /\ last'.op \in {"CreateUser", "UpdateUser", "ChangePassword",
                              "ActivateUser", "DeactivateUser"} )
           => store' = store
        /\ ~Responds => store' = store ]_vars

\* an UpdateUser has failed in its write, on the email another user took after
\* the check, and the user's row does not have the requested name or email
C30_Witness ==
    /\ last.op = "UpdateUser"
    /\ last.err = Errorf("failed to update user", ErrEmailAlreadyExists)
    /\ last.id \in DOMAIN store
    /\ store[last.id].email # TrimSpace(ToLower(last.dto.Email))
    /\ store[last.id].name # last.dto.Name

====
